---- MODULE Spec2Model ----
(***************************************************************************)
(* Model of src/utils.py: helper functions over a dataframe API.           *)
(*                                                                         *)
(* A caller owns a dataframe `df`, a list argument `lst` and a dict        *)
(* argument `dct`.  It calls one helper, which runs step by step over its  *)
(* own locals (`i`, `cols_final`, `l_lst`) and leaves a `result`: either a *)
(* dataframe or the exception that left the call.  The caller may then     *)
(* call the same helper a second time with the very same objects.          *)
(*                                                                         *)
(* A dataframe is a sequence of column names and a sequence of rows; a row *)
(* is a sequence of cells, one per column.  Rows keep the order in which   *)
(* the engine delivers them; sorting is the engine's in-memory sort, which *)
(* keeps tied rows in their incoming order.                                *)
(***************************************************************************)
EXTENDS Integers, Sequences, FiniteSets

\* ------------------------------------------------------------------ bounds
MaxRows == 2
MaxArgLen == 2

\* ------------------------------------------------------------------- cells
\* A cell: t is the engine type, v the number, s the decimal scale, txt a text.
NullCell == [t |-> "null", v |-> 0, s |-> 0, txt |-> ""]
ErrCell == [t |-> "error", v |-> 0, s |-> 0, txt |-> ""]
LongCell(n) == [t |-> "long", v |-> n, s |-> 0, txt |-> ""]
StrCell(x) == [t |-> "string", v |-> 0, s |-> 0, txt |-> x]

IsNull(c) == c.t = "null"

\* 2^24 + 1: the smallest positive integer a 32-bit float cannot hold.
BigValue == 16777216 + 1
InputCells == {NullCell, LongCell(1), LongCell(BigValue)}

ColNames == {"a", "b"}
OtherName == "z"

\* ------------------------------------------------------------- sequences
SeqsUpTo(S, n) == UNION {[1..k -> S] : k \in 0..n}

NoDup(s) == \A p, q \in 1..Len(s) : s[p] = s[q] => p = q

Contains(s, x) == \E p \in 1..Len(s) : s[p] = x

\* [c for c in s if c not in excl]
RECURSIVE Without(_, _)
Without(s, excl) ==
  IF s = <<>> THEN <<>>
  ELSE IF Contains(excl, Head(s)) THEN Without(Tail(s), excl)
  ELSE <<Head(s)>> \o Without(Tail(s), excl)

\* ------------------------------------------------------------ dataframes
ColSeqs == {s \in SeqsUpTo(ColNames, Cardinality(ColNames)) : NoDup(s)}

DataFrames ==
  UNION {{[columns |-> cs, rows |-> rs] :
            rs \in SeqsUpTo([1..Len(cs) -> InputCells], MaxRows)} : cs \in ColSeqs}

EmptyDF == [columns |-> <<>>, rows |-> <<>>]

Ok(d) == [exc |-> "none", df |-> d]
Raised(e) == [exc |-> e, df |-> EmptyDF]
NoResult == Raised("pending")

\* Positions of the columns of d that carry the name nm.
Resolve(d, nm) == {p \in 1..Len(d.columns) : d.columns[p] = nm}

Resolves(d, nm) == Cardinality(Resolve(d, nm)) = 1

ColIndex(d, nm) == CHOOSE p \in Resolve(d, nm) : TRUE

\* ------------------------------------------------------- column functions
\* cast(FloatType()): integers beyond 24 bits of mantissa are rounded (to even).
CastFloat(c) ==
  IF c.t # "long" THEN c
  ELSE [c EXCEPT !.t = "float",
                 !.v = IF c.v > 16777216 /\ c.v % 2 = 1
                       THEN (IF (c.v \div 2) % 2 = 0 THEN c.v - 1 ELSE c.v + 1)
                       ELSE c.v]

\* n_digitos: int = 2, and the precision of DecimalType(18, n_digitos).
NDigitosDefault == 2
Precision == 18

\* 10^k, for the k whose power fits the integers of the model.
RECURSIVE Pow10(_)
Pow10(k) == IF k = 0 THEN 1 ELSE 10 * Pow10(k - 1)

\* cast(DecimalType(18, n)): 18 - n integer digits remain; a number that needs
\* more becomes null.  No cell of the model reaches 10^10.
CastDecimal(c, n) ==
  IF c.t # "long" THEN c
  ELSE IF Precision - n <= 9 /\ c.v >= Pow10(Precision - n) THEN NullCell
  ELSE [c EXCEPT !.t = "decimal", !.s = n]

\* udf(lambda a: format_currency(a, "BRL")): a text; None makes the udf fail.
FormatCurrency(c) ==
  IF c.t # "long" THEN ErrCell
  ELSE [c EXCEPT !.t = "string", !.txt = "BRL"]

ApplyOp(op, n, c) ==
  CASE op = "col" -> c
    [] op = "float" -> CastFloat(c)
    [] op = "decimal" -> CastDecimal(c, n)
    [] op = "moeda" -> FormatCurrency(c)

Expr(src, op, n, alias) == [src |-> src, op |-> op, n |-> n, alias |-> alias]

\* df.select(exprs): every source name must resolve to exactly one column.
Select(d, exprs) ==
  IF \E k \in 1..Len(exprs) : ~Resolves(d, exprs[k].src)
  THEN Raised("AnalysisException")
  ELSE Ok([columns |-> [k \in 1..Len(exprs) |-> exprs[k].alias],
           rows |-> [r \in 1..Len(d.rows) |->
                       [k \in 1..Len(exprs) |->
                          ApplyOp(exprs[k].op, exprs[k].n,
                                  d.rows[r][ColIndex(d, exprs[k].src)])]]])

\* A call on the result of a call that raised never happens.
ThenSelect(res, exprs) == IF res.exc # "none" THEN res ELSE Select(res.df, exprs)

PlainCols(names) == [k \in 1..Len(names) |-> Expr(names[k], "col", 0, names[k])]

CastCols(names, op, n) == [k \in 1..Len(names) |-> Expr(names[k], op, n, names[k])]

\* ------------------------------------------------------------ aggregation
Column(d, p) == [r \in 1..Len(d.rows) |-> d.rows[r][p]]

\* count(x): the number of non-null values.
Count(cells) == Cardinality({r \in 1..Len(cells) : ~IsNull(cells[r])})

\* when(isnull(c), col(c)): the value read from the column, null where it counts.
WhenIsNullCol(cell, c) == IF IsNull(cell) THEN cell ELSE NullCell
\* when(isnull(c), c): the value is a Python str, hence the literal text c.
WhenIsNull(cell, c) == IF IsNull(cell) THEN StrCell(c) ELSE NullCell

\* df.agg(*exprs) with one count(when(isnull(c), c)).alias(c) per name.
AggQtdAusentes(d, names) ==
  IF names = <<>> THEN Raised("AssertionError")
  ELSE IF \E k \in 1..Len(names) : ~Resolves(d, names[k])
  THEN Raised("AnalysisException")
  ELSE Ok([columns |-> names,
           rows |-> << [k \in 1..Len(names) |->
                          LongCell(Count([r \in 1..Len(d.rows) |->
                             WhenIsNull(d.rows[r][ColIndex(d, names[k])], names[k])])) ] >>])

\* ---------------------------------------------------------------- sorting
\* Ascending order of two cells, nulls first: -1, 0 or 1.
CmpCell(x, y) ==
  IF IsNull(x) /\ IsNull(y) THEN 0
  ELSE IF IsNull(x) THEN 0 - 1
  ELSE IF IsNull(y) THEN 1
  ELSE IF x.v < y.v THEN 0 - 1
  ELSE IF x.v > y.v THEN 1
  ELSE 0

\* Descending order is the reverse of ascending (nulls last).
CmpKey(d, key, r1, r2) ==
  LET c == CmpCell(r1[ColIndex(d, key.src)], r2[ColIndex(d, key.src)])
  IN IF key.dir = "asc" THEN c ELSE 0 - c

\* r1 sorts strictly before r2 under the keys, the first key deciding first.
RECURSIVE RowBefore(_, _, _, _)
RowBefore(d, keys, r1, r2) ==
  IF keys = <<>> THEN FALSE
  ELSE LET c == CmpKey(d, Head(keys), r1, r2)
       IN IF c # 0 THEN c < 0 ELSE RowBefore(d, Tail(keys), r1, r2)

\* Insert a row behind every row that does not sort strictly after it.
RECURSIVE Insert(_, _, _, _)
Insert(d, keys, sorted, row) ==
  IF sorted = <<>> THEN <<row>>
  ELSE IF RowBefore(d, keys, row, Head(sorted)) THEN <<row>> \o sorted
  ELSE <<Head(sorted)>> \o Insert(d, keys, Tail(sorted), row)

RECURSIVE SortRows(_, _, _)
SortRows(d, keys, rows) ==
  IF rows = <<>> THEN <<>>
  ELSE Insert(d, keys, SortRows(d, keys, SubSeq(rows, 1, Len(rows) - 1)), rows[Len(rows)])

\* df.orderBy([keys]): an empty list of keys sorts nothing.
OrderBy(d, keys) ==
  IF \E k \in 1..Len(keys) : ~Resolves(d, keys[k].src)
  THEN Raised("AnalysisException")
  ELSE Ok([d EXCEPT !.rows = SortRows(d, keys, d.rows)])

\* --------------------------------------------------------------- grouping
\* The distinct values of a sequence, in order of first appearance.
RECURSIVE Distinct(_)
Distinct(s) ==
  IF s = <<>> THEN <<>>
  ELSE LET front == Distinct(SubSeq(s, 1, Len(s) - 1))
       IN IF Contains(front, s[Len(s)]) THEN front ELSE Append(front, s[Len(s)])

NonNull(cells) == SelectSeq(cells, LAMBDA c : ~IsNull(c))

RECURSIVE SumV(_)
SumV(cells) == IF cells = <<>> THEN 0 ELSE Head(cells).v + SumV(Tail(cells))

MaxV(cells) == CHOOSE m \in {cells[r].v : r \in 1..Len(cells)} :
                 \A r \in 1..Len(cells) : cells[r].v <= m

MinV(cells) == CHOOSE m \in {cells[r].v : r \in 1..Len(cells)} :
                 \A r \in 1..Len(cells) : cells[r].v >= m

\* count, sum, max and min skip nulls; all but count are null over no value.
Aggregate(f, cells) ==
  IF f = "count" THEN LongCell(Count(cells))
  ELSE IF NonNull(cells) = <<>> THEN NullCell
  ELSE CASE f = "sum" -> LongCell(SumV(NonNull(cells)))
         [] f = "max" -> LongCell(MaxV(NonNull(cells)))
         [] f = "min" -> LongCell(MinV(NonNull(cells)))

AggExpr(f, src, alias) == [f |-> f, src |-> src, alias |-> alias]

\* df.groupBy(chv).agg(*exprs): one row per distinct value of the key.
GroupByAgg(d, chv, exprs) ==
  IF exprs = <<>> THEN Raised("AssertionError")
  ELSE IF ~Resolves(d, chv) \/ \E k \in 1..Len(exprs) : ~Resolves(d, exprs[k].src)
  THEN Raised("AnalysisException")
  ELSE LET kp == ColIndex(d, chv)
           keys == Distinct(Column(d, kp))
           group(g) == SelectSeq(d.rows, LAMBDA r : r[kp] = keys[g])
       IN Ok([columns |-> <<chv>> \o [k \in 1..Len(exprs) |-> exprs[k].alias],
              rows |-> [g \in 1..Len(keys) |->
                          <<keys[g]>> \o
                          [k \in 1..Len(exprs) |->
                             Aggregate(exprs[k].f,
                                       [r \in 1..Len(group(g)) |->
                                          group(g)[r][ColIndex(d, exprs[k].src)]])]]])

\* ------------------------------------------------------ the helper bodies
\* list(dict_cols.keys()).index(c): the first position of c, 0 when absent.
IndexOf(keys, c) ==
  IF Contains(keys, c) THEN CHOOSE p \in 1..Len(keys) :
                               keys[p] = c /\ \A q \in 1..(p - 1) : keys[q] # c
  ELSE 0

DictKeys(d) == [k \in 1..Len(d) |-> d[k].k]
DictValues(d) == [k \in 1..Len(d) |-> d[k].v]

\* list(values)[i] in place of list(values)[list(keys).index(c)].
NovoNomePos(c, dict_cols, pos) ==
  IF pos <= Len(dict_cols) /\ Contains(DictKeys(dict_cols), c)
  THEN DictValues(dict_cols)[pos] ELSE c
\* try: list(values)[list(keys).index(c)]   except: c
NovoNome(c, dict_cols, pos) ==
  IF IndexOf(DictKeys(dict_cols), c) = 0 THEN c
  ELSE DictValues(dict_cols)[IndexOf(DictKeys(dict_cols), c)]

\* df.select([col(c_antes).alias(c_depois) for ... in zip(df.columns, cols_final)])
RenomearSelecao(d, finais) ==
  Select(d, [k \in 1..Len(d.columns) |-> Expr(d.columns[k], "col", 0, finais[k])])

FormatarColsMoeda(d, l) ==
  Select(d, PlainCols(Without(d.columns, l)) \o CastCols(l, "moeda", 0))

\* formatar_cols_decimal without its closing .select(df.columns).
FormatarColsDecimalSemSelect(d, l, n) ==
  Select(d, PlainCols(Without(d.columns, l)) \o CastCols(l, "decimal", n))
FormatarColsDecimal(d, l, n) ==
  ThenSelect(Select(d, PlainCols(Without(d.columns, l)) \o CastCols(l, "decimal", n)),
             PlainCols(d.columns))

FormatarColsFloat(d, l) ==
  ThenSelect(Select(d, PlainCols(Without(d.columns, l)) \o CastCols(l, "float", 0)),
             PlainCols(d.columns))

\* order != "asc" or order != "desc"
OrdemInvalidaOu(order) == order # "asc" \/ order # "desc"
\* order != "asc" and order != "desc"
OrdemInvalida(order) == order # "asc" /\ order # "desc"

\* asc(col(coluna)) if ordem == "asc" else asc(col(coluna)) if ordem == "desc" else None
SortKey(coluna, ordem) ==
  [src |-> coluna,
   dir |-> IF ordem = "asc" THEN "asc" ELSE IF ordem = "desc" THEN "asc" ELSE "none"]

OrderByDictKeys(d_order) == [k \in 1..Len(d_order) |-> SortKey(d_order[k].k, d_order[k].v)]

AgruparExprs(aggs) ==
  [k \in 1..Len(aggs.conta) |-> AggExpr("count", aggs.conta[k], "cont_" \o aggs.conta[k])]
  \o [k \in 1..Len(aggs.soma) |-> AggExpr("sum", aggs.soma[k], "soma_" \o aggs.soma[k])]
  \o [k \in 1..Len(aggs.max) |-> AggExpr("max", aggs.max[k], "max_" \o aggs.max[k])]
  \o [k \in 1..Len(aggs.min) |-> AggExpr("min", aggs.min[k], "min_" \o aggs.min[k])]

\* ------------------------------------------------------------- arguments
NoList == [none |-> TRUE, items |-> <<>>]
List(l) == [none |-> FALSE, items |-> l]

ColSet(d) == {d.columns[p] : p \in 1..Len(d.columns)}

\* Lists of columns of d, repeated names included.
ColLists(d) == SeqsUpTo(ColSet(d), MaxArgLen)

\* A dict is the sequence of its items in insertion order; keys are unique.
Dicts(K, V) == {d \in SeqsUpTo([k : K, v : V], MaxArgLen) : NoDup(DictKeys(d))}

RenameDicts == Dicts(ColNames \cup {OtherName}, {"b", OtherName})

Ordens == {"asc", "desc", "ASC"}

OrderDicts(d) == Dicts(ColSet(d), Ordens)

NDigitos == {NDigitosDefault, Precision}

NoOpt == [n |-> 0, slot |-> "", chv |-> ""]

Slots == {"conta", "soma", "max", "min"}

NoAggs == [conta |-> <<>>, soma |-> <<>>, max |-> <<>>, min |-> <<>>]

\* ------------------------------------------------------------------ state
VARIABLES
  pc,          \* "idle", "enter", "loop", "body", "done"
  fn,          \* the helper being called
  nth,         \* 1 for the first call, 2 for the repeated one
  df,          \* the caller's dataframe
  lst,         \* the caller's list argument (or None)
  dct,         \* the caller's dict argument
  opt,         \* n_digitos; chv_agrup and the parameter the list is passed as
  i,           \* local: position of the running loop
  cols_final,  \* local of renomear_cols
  lst_nm_cols, \* local of obter_qtd_ausentes
  aggs,        \* locals lst_cols_conta, _soma, _max, _min of agrupar
  ordered,     \* whether df.orderBy has been invoked in this call
  result,      \* what the call returned or raised
  first        \* what the first of two calls returned or raised

vars == <<pc, fn, nth, df, lst, dct, opt, i, cols_final, lst_nm_cols, aggs,
          ordered, result, first>>

args == <<df, lst, dct, opt>>
locals == <<i, cols_final, lst_nm_cols, aggs>>
caller == <<fn, nth, first>>

Init ==
  /\ pc = "idle" /\ fn = "" /\ nth = 1
  /\ df = EmptyDF /\ lst = NoList /\ dct = <<>> /\ opt = NoOpt
  /\ i = 1 /\ cols_final = <<>> /\ lst_nm_cols = <<>> /\ aggs = NoAggs
  /\ ordered = FALSE /\ result = NoResult /\ first = NoResult

\* A call starts with fresh locals.
Fresh ==
  /\ i' = 1 /\ cols_final' = <<>> /\ lst_nm_cols' = <<>> /\ aggs' = NoAggs
  /\ ordered' = FALSE /\ result' = NoResult

Call(f, d, l, dc, o) ==
  /\ pc' = "enter" /\ fn' = f /\ nth' = 1
  /\ df' = d /\ lst' = l /\ dct' = dc /\ opt' = o
  /\ Fresh
  /\ first' = NoResult

CallRenomearCols ==
  /\ pc = "idle"
  /\ \E d \in DataFrames, dc \in RenameDicts : Call("renomear_cols", d, NoList, dc, NoOpt)

CallOrderByDict ==
  /\ pc = "idle"
  /\ \E d \in DataFrames : \E dc \in OrderDicts(d) : Call("orderBy_dict", d, NoList, dc, NoOpt)

CallObterQtdAusentes ==
  /\ pc = "idle"
  /\ \E d \in DataFrames : \E l \in {NoList} \cup {List(x) : x \in ColLists(d)} :
     Call("obter_qtd_ausentes", d, l, <<>>, NoOpt)

CallFormatarColsMoeda ==
  /\ pc = "idle"
  /\ \E d \in DataFrames : \E l \in ColLists(d) :
     Call("formatar_cols_moeda", d, List(l), <<>>, NoOpt)

CallFormatarColsDecimal ==
  /\ pc = "idle"
  /\ \E d \in DataFrames : \E l \in ColLists(d), n \in NDigitos :
     Call("formatar_cols_decimal", d, List(l), <<>>, [NoOpt EXCEPT !.n = n])

CallFormatarColsFloat ==
  /\ pc = "idle"
  /\ \E d \in DataFrames : \E l \in ColLists(d) :
     Call("formatar_cols_float", d, List(l), <<>>, NoOpt)

\* agrupar is called with one of its four list parameters, the others default.
CallAgrupar ==
  /\ pc = "idle"
  /\ \E d \in DataFrames : \E l \in {NoList} \cup {List(x) : x \in ColLists(d)},
                           sl \in Slots, chv \in ColSet(d) :
     Call("agrupar", d, l, <<>>, [NoOpt EXCEPT !.slot = sl, !.chv = chv])

\* The caller calls the same helper again with the same objects.
Repeat ==
  /\ pc = "done" /\ nth = 1
  /\ pc' = "enter" /\ nth' = 2 /\ first' = result
  /\ Fresh
  /\ UNCHANGED <<fn, args>>

\* The caller drops the objects.
Discard ==
  /\ pc = "done"
  /\ pc' = "idle" /\ fn' = "" /\ nth' = 1
  /\ df' = EmptyDF /\ lst' = NoList /\ dct' = <<>> /\ opt' = NoOpt
  /\ Fresh
  /\ first' = NoResult

Return(res) == pc' = "done" /\ result' = res

\* ---------------------------------------------------------- renomear_cols
RenomearEnter ==
  /\ pc = "enter" /\ fn = "renomear_cols"
  /\ cols_final' = df.columns
  /\ pc' = "loop"
  /\ UNCHANGED <<caller, args, i, lst_nm_cols, aggs, ordered, result>>

\* The loop body, were cols_final the dataframe's own list of columns.
RenomearLoopAlias ==
  /\ pc = "loop" /\ fn = "renomear_cols"
  /\ i <= Len(df.columns)
  /\ cols_final' = [cols_final EXCEPT ![i] = NovoNome(df.columns[i], dct, i)]
  /\ df' = [df EXCEPT !.columns = cols_final']
  /\ i' = i + 1
  /\ UNCHANGED <<pc, caller, lst, dct, opt, lst_nm_cols, aggs, ordered, result>>
\* cols_final[i] = the new name of column i; df.columns is a list of its own.
RenomearLoop ==
  /\ pc = "loop" /\ fn = "renomear_cols"
  /\ i <= Len(df.columns)
  /\ cols_final' = [cols_final EXCEPT ![i] = NovoNome(df.columns[i], dct, i)]
  /\ i' = i + 1
  /\ UNCHANGED <<pc, caller, args, lst_nm_cols, aggs, ordered, result>>

RenomearSelect ==
  /\ pc = "loop" /\ fn = "renomear_cols"
  /\ i > Len(df.columns)
  /\ Return(RenomearSelecao(df, cols_final))
  /\ UNCHANGED <<caller, args, locals, ordered>>

\* ----------------------------------------------------------- orderBy_dict
OrderByCheck ==
  /\ pc = "enter" /\ fn = "orderBy_dict"
  /\ i <= Len(dct)
  /\ IF OrdemInvalida(dct[i].v)
     THEN Return(Raised("ValueError")) /\ i' = i
     ELSE i' = i + 1 /\ UNCHANGED <<pc, result>>
  /\ UNCHANGED <<caller, args, cols_final, lst_nm_cols, aggs, ordered>>

OrderByApply ==
  /\ pc = "enter" /\ fn = "orderBy_dict"
  /\ i > Len(dct)
  /\ ordered' = TRUE
  /\ Return(OrderBy(df, OrderByDictKeys(dct)))
  /\ UNCHANGED <<caller, args, locals>>

\* ----------------------------------------------------- obter_qtd_ausentes
AusentesDefault ==
  /\ pc = "enter" /\ fn = "obter_qtd_ausentes"
  /\ lst_nm_cols' = IF lst.none THEN df.columns ELSE lst.items
  /\ pc' = "body"
  /\ UNCHANGED <<caller, args, i, cols_final, aggs, ordered, result>>

AusentesAgg ==
  /\ pc = "body" /\ fn = "obter_qtd_ausentes"
  /\ Return(AggQtdAusentes(df, lst_nm_cols))
  /\ UNCHANGED <<caller, args, locals, ordered>>

\* ------------------------------------------------------------ formatar_*
FormatarMoeda ==
  /\ pc = "enter" /\ fn = "formatar_cols_moeda"
  /\ Return(FormatarColsMoeda(df, lst.items))
  /\ UNCHANGED <<caller, args, locals, ordered>>

FormatarDecimal ==
  /\ pc = "enter" /\ fn = "formatar_cols_decimal"
  /\ Return(FormatarColsDecimal(df, lst.items, opt.n))
  /\ UNCHANGED <<caller, args, locals, ordered>>

FormatarFloat ==
  /\ pc = "enter" /\ fn = "formatar_cols_float"
  /\ Return(FormatarColsFloat(df, lst.items))
  /\ UNCHANGED <<caller, args, locals, ordered>>

\* ---------------------------------------------------------------- agrupar
\* The parameter named by slot receives the caller's list; None becomes [].
Param(slot) == IF opt.slot = slot /\ ~lst.none THEN lst.items ELSE <<>>

AgruparDefaults ==
  /\ pc = "enter" /\ fn = "agrupar"
  /\ aggs' = [conta |-> Param("conta"), soma |-> Param("soma"),
              max |-> Param("max"), min |-> Param("min")]
  /\ pc' = "body"
  /\ UNCHANGED <<caller, args, i, cols_final, lst_nm_cols, ordered, result>>

AgruparAgg ==
  /\ pc = "body" /\ fn = "agrupar"
  /\ Return(GroupByAgg(df, opt.chv, AgruparExprs(aggs)))
  /\ UNCHANGED <<caller, args, locals, ordered>>

\* ------------------------------------------------------------------- spec
Next ==
  \/ CallRenomearCols \/ CallOrderByDict \/ CallObterQtdAusentes
  \/ CallFormatarColsMoeda \/ CallFormatarColsDecimal \/ CallFormatarColsFloat
  \/ CallAgrupar
  \/ RenomearEnter \/ RenomearLoop \/ RenomearSelect
  \/ OrderByCheck \/ OrderByApply
  \/ AusentesDefault \/ AusentesAgg
  \/ FormatarMoeda \/ FormatarDecimal \/ FormatarFloat
  \/ AgruparDefaults \/ AgruparAgg
  \/ Repeat \/ Discard

Spec == Init /\ [][Next]_vars

\* ----------------------------------------------------------------- claims
Done(f) == fn = f /\ pc = "done"

Items(s) == {s[p] : p \in 1..Len(s)}

\* The columns obter_qtd_ausentes is asked about.
Requested == IF lst.none THEN df.columns ELSE lst.items

\* Rows of the caller's dataframe whose value in column c is null.
NullRows(c) == {r \in 1..Len(df.rows) : df.rows[r][ColIndex(df, c)].t = "null"}

OneRowOfNullCounts ==
  /\ result.exc = "none"
  /\ Len(result.df.rows) = 1
  /\ \A c \in Items(Requested) :
       /\ Resolve(result.df, c) # {}
       /\ \A p \in Resolve(result.df, c) :
            result.df.rows[1][p] = LongCell(Cardinality(NullRows(c)))

\* C1, as stated: obter_qtd_ausentes returns one row in which the value under
\* every requested column c (all columns when lst_nm_cols is None) is the
\* number of rows of df whose value in c is null.
C1_AsStated == Done("obter_qtd_ausentes") => OneRowOfNullCounts

\* C1, amended: when at least one column is requested, obter_qtd_ausentes
\* returns one row in which the value under every requested column c is the
\* number of rows of df whose value in c is null.
C1_QtdAusentes ==
  Done("obter_qtd_ausentes") /\ Requested # <<>> => OneRowOfNullCounts

\* Two rows, the second column requested, one null counted in it.
C1_Witness ==
  /\ Done("obter_qtd_ausentes")
  /\ ~lst.none /\ lst.items = <<"b">>
  /\ df.columns = <<"a", "b">> /\ Len(df.rows) = 2
  /\ Cardinality(NullRows("b")) = 1 /\ Cardinality(NullRows("a")) = 0
  /\ result.exc = "none"

\* The sort keys d_order asks for: each column in the direction of its value.
AskedKeys == [k \in 1..Len(dct) |-> [src |-> dct[k].k, dir |-> dct[k].v]]

\* s is t reordered.
IsPermutation(s, t) ==
  /\ Len(s) = Len(t)
  /\ \E f \in [1..Len(s) -> 1..Len(s)] :
       /\ \A p, q \in 1..Len(s) : f[p] = f[q] => p = q
       /\ \A p \in 1..Len(s) : s[p] = t[f[p]]

\* C2: orderBy_dict returns the rows of df ordered by the keys of d_order,
\* a column mapped to 'asc' ascending and a column mapped to 'desc' descending.
C2_OrderedAsAsked ==
  Done("orderBy_dict") /\ result.exc = "none" =>
    /\ result.df.columns = df.columns
    /\ IsPermutation(result.df.rows, df.rows)
    /\ \A j \in 1..(Len(result.df.rows) - 1) :
         ~RowBefore(df, AskedKeys, result.df.rows[j + 1], result.df.rows[j])

SomeBadOrder == \E k \in 1..Len(dct) : dct[k].v \notin {"asc", "desc"}

\* C3: orderBy_dict raises ValueError exactly when some value of d_order is
\* neither 'asc' nor 'desc', and then df.orderBy has not been invoked.
C3_ValueError ==
  fn = "orderBy_dict" =>
    /\ ordered => ~SomeBadOrder
    /\ pc = "done" => (result.exc = "ValueError" <=> SomeBadOrder)
    /\ result.exc = "ValueError" => ~ordered

\* The first value is accepted, the second is rejected.
C3_Witness ==
  /\ Done("orderBy_dict")
  /\ Len(dct) = 2 /\ dct[1].v = "desc" /\ dct[2].v = "ASC"
  /\ result.exc = "ValueError" /\ ~ordered

\* C4: formatar_cols_moeda changes neither the order nor the names of the
\* columns: the column names of the result are df.columns.
C4_MoedaKeepsColumns ==
  Done("formatar_cols_moeda") =>
    result.exc = "none" /\ result.df.columns = df.columns

\* Columns and the values of the columns outside the list are as in df.
ColumnsKept ==
  /\ result.exc = "none"
  /\ result.df.columns = df.columns
  /\ Len(result.df.rows) = Len(df.rows)
  /\ \A p \in 1..Len(df.columns) :
       df.columns[p] \notin Items(lst.items) =>
         \A r \in 1..Len(df.rows) : result.df.rows[r][p] = df.rows[r][p]

Formatted == Done("formatar_cols_decimal") \/ Done("formatar_cols_float")

\* C5, as stated: for every list of columns of df, formatar_cols_decimal and
\* formatar_cols_float return the columns of df in the same order under the
\* same names, the values of the columns not in the list unchanged.
C5_AsStated == Formatted => ColumnsKept

\* C5, amended: the same, for every list of columns of df that names no
\* column twice.
C5_FormatarKeepsColumns == Formatted /\ NoDup(lst.items) => ColumnsKept

\* The first of two columns is cast and its value changes, the second is kept.
C5_Witness ==
  /\ Done("formatar_cols_float")
  /\ df.columns = <<"a", "b">> /\ lst.items = <<"a">>
  /\ Len(df.rows) = 2
  /\ result.exc = "none"
  /\ result.df.rows[1][1] # df.rows[1][1]
  /\ result.df.rows[1][2] = df.rows[1][2]

HasKey(c) == \E k \in 1..Len(dct) : dct[k].k = c

ValueOf(c) == dct[CHOOSE k \in 1..Len(dct) : dct[k].k = c].v

\* C6: renomear_cols returns the same number of columns in the same
\* positions; a column whose name is a key of dict_cols carries the value
\* of that key, any other column keeps its name; keys that are no column of
\* df have no effect and raise no error.
C6_Renomear ==
  Done("renomear_cols") =>
    /\ result.exc = "none"
    /\ Len(result.df.columns) = Len(df.columns)
    /\ \A p \in 1..Len(df.columns) :
         result.df.columns[p] =
           IF HasKey(df.columns[p]) THEN ValueOf(df.columns[p]) ELSE df.columns[p]
    /\ result.df.rows = df.rows

\* The second key renames the only renamed column; the first is no column.
C6_Witness ==
  /\ Done("renomear_cols")
  /\ df.columns = <<"b", "a">> /\ Len(df.rows) = 1
  /\ Len(dct) = 2 /\ dct[1].k = OtherName /\ dct[2].k = "a" /\ dct[2].v = OtherName
  /\ result.exc = "none" /\ result.df.columns = <<"b", OtherName>>

Running == pc \in {"enter", "loop", "body"}

====
